---- MODULE Spec2Model ----
(***************************************************************************)
(* A model of akamai-sdk-go: Session.Generate (generate.go) with its two   *)
(* worker goroutines, the error collector they share, and the pure         *)
(* helpers Generate calls (IsCookieValid, GetSdkVersion, IsScriptStatic,   *)
(* the pixel challenge extractors, the remote API operations).             *)
(*                                                                         *)
(* Strings the code inspects character by character (cookie values) are    *)
(* sequences of one-character strings.  The caller-supplied collaborators  *)
(* (DoHttpReqFunc, GetCookieFunc) and the remote API are the environment:   *)
(* every call draws its outcome from a small set.                          *)
(***************************************************************************)
EXTENDS Integers, Sequences, FiniteSets, TLC

(***************************************************************************)
(* Bounds of the model.                                                    *)
(***************************************************************************)
\* the largest maxTries a caller passes
MaxTries == 2

(***************************************************************************)
(* Program constants.                                                      *)
(***************************************************************************)
StatusOK == 200
StatusCreated == 201
StatusNotFound == 404
StatusInternalServerError == 500

\* HttpReqOp constants (iota order of the source)
OpGetPage == "OpGetPage"
OpGetSdkScript == "OpGetSdkScript"
OpPostSensorData == "OpPostSensorData"
OpGetPixelChallengeScript == "OpGetPixelChallengeScript"
OpPostPixelPayload == "OpPostPixelPayload"

HttpReqOps ==
    {OpGetPage, OpGetSdkScript, OpPostSensorData, OpGetPixelChallengeScript, OpPostPixelPayload}

\* Version constants
Version17 == "1.7"
Version175 == "1.75"
Version2 == "2"

(***************************************************************************)
(* Error values.  nil is a record too, so that errors compare.             *)
(***************************************************************************)
Nil == [type |-> "nil"]

\* an error the caller's DoHttpReqFunc (or the API's http.Client) returns
TransportError == [type |-> "TransportError"]

\* an error json.Unmarshal returns
JsonError == [type |-> "JsonError"]

\* the error url.Parse returns
UrlParseError == [type |-> "url.Error"]

ErrInvalidPageURL == [type |-> "ErrInvalidPageURL"]

ErrPixelHtmlVarNotFound == [type |-> "ErrPixelHtmlVarNotFound"]

ErrPixelScriptVarNotFound == [type |-> "ErrPixelScriptVarNotFound"]

HttpOpError(op) == [type |-> "HttpOpError", op |-> op]

BadStatusCodeError(statusCode) == [type |-> "BadStatusCodeError", statusCode |-> statusCode]

ApiOperationError(statusCode, message) ==
    [type |-> "ApiOperationError", statusCode |-> statusCode, message |-> message]

\* errors.Join: nil values are discarded; nil when nothing is left
ErrorsJoin(es) ==
    LET nonNil == SelectSeq(es, LAMBDA e : e # Nil)
    IN  IF nonNil = <<>> THEN Nil ELSE [type |-> "joinError", errs |-> nonNil]

(***************************************************************************)
(* Strings as sequences of one-character strings.                          *)
(***************************************************************************)
Digits == <<"0", "1", "2", "3", "4", "5", "6", "7", "8", "9">>

DigitChars == {Digits[k] : k \in 1..10}

\* the value of a decimal digit character
DigitVal(c) == (CHOOSE k \in 1..10 : Digits[k] = c) - 1

\* the largest int, 9223372036854775807, digit by digit (an int has 64 bits)
MaxIntDigits ==
    <<"9", "2", "2", "3", "3", "7", "2", "0", "3", "6", "8", "5", "4", "7", "7", "5", "8", "0", "7">>

RECURSIVE StripZeros(_)
\* a digit sequence without its leading zeros
StripZeros(ds) == IF Len(ds) > 1 /\ ds[1] = "0" THEN StripZeros(Tail(ds)) ELSE ds

\* a < b for digit sequences of the same length
DigitsLess(a, b) ==
    \E k \in 1..Len(a) :
        /\ \A j \in 1..(k - 1) : a[j] = b[j]
        /\ DigitVal(a[k]) < DigitVal(b[k])

\* the number the digit sequence denotes is greater than limit + extra (extra is 0 or 1)
DigitsExceed(ds, limit, extra) ==
    LET sig == StripZeros(ds)
    IN  \/ Len(sig) > Len(limit)
        \/ Len(sig) = Len(limit) /\ sig # limit /\ ~DigitsLess(sig, limit)
              /\ ~(extra = 1 /\ SubSeq(sig, 1, Len(sig) - 1) = SubSeq(limit, 1, Len(limit) - 1)
                     /\ DigitVal(sig[Len(sig)]) = DigitVal(limit[Len(limit)]) + 1)

RECURSIVE DecimalValue(_)
\* the number a sequence of decimal digits denotes
DecimalValue(ds) ==
    IF ds = <<>> THEN 0
    ELSE 10 * DecimalValue(SubSeq(ds, 1, Len(ds) - 1)) + DigitVal(ds[Len(ds)])

\* strconv.Atoi: an optional sign, then one or more decimal digits, in int range
Atoi(s) ==
    LET signed == Len(s) > 0 /\ s[1] \in {"+", "-"}
        ds == IF signed THEN Tail(s) ELSE s
        wellFormed == Len(ds) > 0 /\ \A k \in 1..Len(ds) : ds[k] \in DigitChars
        negative == signed /\ s[1] = "-"
    IN  IF ~wellFormed THEN [ok |-> FALSE, val |-> 0]
        ELSE IF DigitsExceed(ds, MaxIntDigits, IF negative THEN 1 ELSE 0)
        THEN [ok |-> FALSE, val |-> 0]
        ELSE [ok |-> TRUE,
              val |-> IF negative THEN 0 - DecimalValue(ds) ELSE DecimalValue(ds)]

RECURSIVE Split(_, _)
\* strings.Split(s, sep) for a one-character separator
Split(s, sep) ==
    IF \A k \in 1..Len(s) : s[k] # sep THEN <<s>>
    ELSE LET at == CHOOSE k \in 1..Len(s) : s[k] = sep /\ \A j \in 1..(k - 1) : s[j] # sep
         IN  <<SubSeq(s, 1, at - 1)>> \o Split(SubSeq(s, at + 1, Len(s)), sep)

(***************************************************************************)
(* IsCookieValid, the stop signal.                                         *)
(***************************************************************************)
\* mutant: the request count is compared one too high
IsCookieValidMutant(value, requestCount) ==
    LET parts == Split(value, "~")
    IN  IF Len(parts) < 2 THEN FALSE
        ELSE LET parsed == Atoi(parts[2])
                 requestThreshold == IF parsed.ok THEN parsed.val ELSE 0 - 1
             IN  requestThreshold # 0 - 1 /\ requestCount + 1 >= requestThreshold

\* mutant: the threshold must be exceeded, not reached
IsCookieValidStrictMutant(value, requestCount) ==
    LET parts == Split(value, "~")
    IN  IF Len(parts) < 2 THEN FALSE
        ELSE LET parsed == Atoi(parts[2])
                 requestThreshold == IF parsed.ok THEN parsed.val ELSE 0 - 1
             IN  requestThreshold # 0 - 1 /\ requestCount > requestThreshold

IsCookieValid(value, requestCount) ==
    LET parts == Split(value, "~")
    IN  IF Len(parts) < 2 THEN FALSE
        ELSE LET parsed == Atoi(parts[2])
                 requestThreshold == IF parsed.ok THEN parsed.val ELSE 0 - 1
             IN  requestThreshold # 0 - 1 /\ requestCount >= requestThreshold

(***************************************************************************)
(* url.Parse and URL.IsAbs, on the page URLs a caller passes.              *)
(***************************************************************************)
\* the page URLs of the model: absolute, relative, with a scheme and no host,
\* and one url.Parse rejects (a missing protocol scheme)
PageUrls == {"https://example.com/", "/relative", "https:///nohost", "://bad"}

\* url.Parse: the error, and the Scheme and Host of the parsed URL
UrlParse(rawURL) ==
    CASE rawURL = "https://example.com/" ->
            [err |-> Nil, Scheme |-> <<"https">>, Host |-> <<"example.com">>]
      [] rawURL = "/relative" -> [err |-> Nil, Scheme |-> <<>>, Host |-> <<>>]
      [] rawURL = "https:///nohost" -> [err |-> Nil, Scheme |-> <<"https">>, Host |-> <<>>]
      [] OTHER -> [err |-> UrlParseError, Scheme |-> <<>>, Host |-> <<>>]

\* URL.IsAbs reports whether the URL has a non-empty scheme
IsAbs(url) == url.Scheme # <<>>

(***************************************************************************)
(* The SDK script: GetSdkVersion and IsScriptStatic.  A script source is a   *)
(* sequence of tokens; the tokens the patterns look for are single tokens. *)
(***************************************************************************)
WordChars == {"a", "b", "_"} \cup DigitChars

HasPrefix(src, prefix) ==
    Len(src) >= Len(prefix) /\ SubSeq(src, 1, Len(prefix)) = prefix

\* version175expr = ^var _acxj
version175expr(src) == HasPrefix(src, <<"var _acxj">>)

\* version2expr = ^\(function
version2expr(src) == HasPrefix(src, <<"(function">>)

\* staticScriptExpr = ^\(function \w+?
staticScriptExpr(src) ==
    HasPrefix(src, <<"(function", " ">>) /\ Len(src) >= 3 /\ src[3] \in WordChars

GetSdkVersion(src) ==
    IF version175expr(src) THEN Version175
    ELSE IF version2expr(src) THEN Version2
    ELSE Version17

IsScriptStatic(src) == staticScriptExpr(src)

\* the SDK scripts a site serves: 1.7, 1.75, 2 static and 2 dynamic
SdkScripts ==
    { <<"/*", "a">>,
      <<"var _acxj", "=">>,
      <<"(function", " ", "a", "(">>,
      <<"(function", "(", ")">> }

(***************************************************************************)
(* The page and the pixel script.  A document is the record of the markup  *)
(* fragments the patterns of the extractors look at; every extractor       *)
(* validates the fragment the way its pattern does.                        *)
(***************************************************************************)
\* [/\w\-]
PathChars == WordChars \cup {"/", "-"}

AllIn(s, chars) == \A k \in 1..Len(s) : s[k] \in chars

\* scriptPathExpr = <script type="text/javascript"(?i:.*) src="((?i)[/\w\-]+)">
scriptPathExpr(src) ==
    src.hasScriptTag /\ Len(src.scriptSrc) > 0 /\ AllIn(src.scriptSrc, PathChars)

\* GetScriptPath: the path, or the empty string
GetScriptPath(src) == IF scriptPathExpr(src) THEN src.scriptSrc ELSE <<>>

\* pixelHtmlExpr = bazadebezolkohpepadr="(\d+)"
pixelHtmlExpr(src) ==
    src.hasHtmlAttr /\ Len(src.htmlAttr) > 0 /\ AllIn(src.htmlAttr, DigitChars)

\* strconv's error for a string Atoi does not parse
NumError == [type |-> "strconv.NumError"]

GetPixelChallengeHtmlVar(src) ==
    IF ~pixelHtmlExpr(src) THEN [v |-> 0, err |-> ErrPixelHtmlVarNotFound]
    ELSE LET parsed == Atoi(src.htmlAttr)
         IN  IF parsed.ok THEN [v |-> parsed.val, err |-> Nil]
             ELSE [v |-> 0, err |-> ErrorsJoin(<<ErrPixelHtmlVarNotFound, NumError>>)]

\* pixelScriptUrlExpr = (?i)src="(https?://.+/akam/\d+/\w+)", on the URL split at "/"
pixelScriptUrlExpr(src) ==
    LET parts == src.pixelSrc
        n == Len(parts)
    IN  /\ src.hasPixelSrc
        /\ n >= 6
        /\ parts[1] \in {<<"http:">>, <<"https:">>}
        /\ parts[2] = <<>>
        /\ parts[3] # <<>>
        /\ parts[n - 2] = <<"akam">>
        /\ Len(parts[n - 1]) > 0 /\ AllIn(parts[n - 1], DigitChars)
        /\ Len(parts[n]) > 0 /\ AllIn(parts[n], WordChars)

\* GetPixelChallengeScriptURL: the script URL and the URL to post to, both split at "/"
GetPixelChallengeScriptURL(src) ==
    IF ~pixelScriptUrlExpr(src) THEN [ok |-> FALSE, scriptUrl |-> <<>>, postUrl |-> <<>>]
    ELSE LET parts == src.pixelSrc
         IN  [ok |-> TRUE,
              scriptUrl |-> parts,
              postUrl |-> [parts EXCEPT ![Len(parts)] = <<"pixel_">> \o @]]

HexDigits == <<"0", "1", "2", "3", "4", "5", "6", "7", "8", "9", "a", "b", "c", "d", "e", "f">>

IsHexChar(c) == \E k \in 1..16 : HexDigits[k] = c

HexVal(c) == (CHOOSE k \in 1..16 : HexDigits[k] = c) - 1

RECURSIVE HexValue(_)
HexValue(ds) ==
    IF ds = <<>> THEN 0
    ELSE 16 * HexValue(SubSeq(ds, 1, Len(ds) - 1)) + HexVal(ds[Len(ds)])

\* strings.Replace(s, old, "", 1): the first old removed
RemoveFirst(s, old) ==
    IF \A k \in 1..Len(s) : s[k] # old THEN s
    ELSE LET at == CHOOSE k \in 1..Len(s) : s[k] = old /\ \A j \in 1..(k - 1) : s[j] # old
         IN  SubSeq(s, 1, at - 1) \o SubSeq(s, at + 1, Len(s))

\* the hexadecimal digits an int64 holds
Int64HexDigits == 16

\* the hexadecimal number is greater than the largest int64, 7fffffffffffffff
HexExceeds(ds) ==
    LET sig == StripZeros(ds)
    IN  \/ Len(sig) > Int64HexDigits
        \/ Len(sig) = Int64HexDigits /\ HexVal(sig[1]) >= 8

\* strconv.ParseInt(s, 16, 64)
ParseHex(s) ==
    LET signed == Len(s) > 0 /\ s[1] \in {"+", "-"}
        ds == IF signed THEN Tail(s) ELSE s
        wellFormed == Len(ds) > 0 /\ \A k \in 1..Len(ds) : IsHexChar(ds[k])
        negative == signed /\ s[1] = "-"
    IN  IF ~wellFormed \/ HexExceeds(ds) THEN [ok |-> FALSE, val |-> 0]
        ELSE [ok |-> TRUE, val |-> IF negative THEN 0 - HexValue(ds) ELSE HexValue(ds)]

\* mutant: the low byte of the rune is written as it is
WriteRuneMutant(r) == <<r % 256>>

\* strings.Builder.WriteRune: the bytes of the UTF-8 encoding of the rune, those
\* of U+FFFD for what is not a Unicode scalar value
WriteRune(r) ==
    IF r < 0 \/ r > 1114111 \/ (r >= 55296 /\ r <= 57343) THEN <<239, 191, 189>>
    ELSE IF r < 128 THEN <<r>>
    ELSE IF r < 2048 THEN <<192 + (r \div 64), 128 + (r % 64)>>
    ELSE IF r < 65536
    THEN <<224 + (r \div 4096), 128 + ((r \div 64) % 64), 128 + (r % 64)>>
    ELSE <<240 + (r \div 262144), 128 + ((r \div 4096) % 64), 128 + ((r \div 64) % 64),
           128 + (r % 64)>>

RECURSIVE DecodeParts(_)
\* the loop of FromHexString over the parts: the bytes written, or the first error
DecodeParts(parts) ==
    IF parts = <<>> THEN [v |-> <<>>, err |-> Nil]
    ELSE LET i == ParseHex(RemoveFirst(Head(parts), "x"))
             rest == DecodeParts(Tail(parts))
         IN  IF ~i.ok THEN [v |-> <<>>, err |-> NumError]
             ELSE IF rest.err # Nil THEN rest
             ELSE [v |-> WriteRune(i.val) \o rest.v, err |-> Nil]

\* internal.FromHexString: the bytes of the decoded string
FromHexString(s) == DecodeParts(Tail(Split(s, "\\")))

\* the error fmt.Errorf builds in GetPixelChallengeScriptVar
FmtError(what) == [type |-> "fmt.Errorf", what |-> what]

\* pixelScriptVarExpr = g=_\[(\d+)]
pixelScriptVarExpr(src) ==
    src.hasIndexRef /\ Len(src.indexRef) > 0 /\ AllIn(src.indexRef, DigitChars)

\* pixelScriptStringArrayExpr = (?i)var _=\[(.+)];
pixelScriptStringArrayExpr(src) == src.hasArrayDecl

\* pixelScriptStringsExpr = (?i)"([^",]*)" : the quoted entries of the array
pixelScriptStringsExpr(src) == src.arrayStrings

\* mutant: the bounds check lets the index one past the last entry through
IndexOutOfRangeMutant(stringIndex, rawStrings) == stringIndex > Len(rawStrings)

\* pixel_challenge.go 101: the bounds check that prevents a panic
IndexOutOfRange(stringIndex, rawStrings) == stringIndex >= Len(rawStrings)

\* the panic of the Go runtime for rawStrings[stringIndex] out of range
IndexPanic == [type |-> "panic", msg |-> "index out of range"]

GetPixelChallengeScriptVar(src) ==
    IF ~pixelScriptVarExpr(src)
    THEN [v |-> <<>>, err |-> ErrorsJoin(<<ErrPixelScriptVarNotFound, FmtError("len(index)")>>)]
    ELSE LET stringIndex == Atoi(src.indexRef)
             rawStrings == pixelScriptStringsExpr(src)
         IN  IF ~stringIndex.ok
             THEN [v |-> <<>>, err |-> ErrorsJoin(<<ErrPixelScriptVarNotFound, NumError>>)]
             ELSE IF ~pixelScriptStringArrayExpr(src)
             THEN [v |-> <<>>,
                   err |-> ErrorsJoin(<<ErrPixelScriptVarNotFound, FmtError("len(arrayDeclaration)")>>)]
             ELSE IF IndexOutOfRange(stringIndex.val, rawStrings)
             THEN [v |-> <<>>,
                   err |-> ErrorsJoin(<<ErrPixelScriptVarNotFound, FmtError("string index out of range")>>)]
             ELSE IF stringIndex.val + 1 \notin DOMAIN rawStrings
             THEN [v |-> <<>>, err |-> IndexPanic]
             ELSE LET decoded == FromHexString(rawStrings[stringIndex.val + 1])
                  IN  IF decoded.err = Nil THEN [v |-> decoded.v, err |-> Nil]
                      ELSE [v |-> <<>>, err |-> ErrorsJoin(<<ErrPixelScriptVarNotFound, decoded.err>>)]

\* a document with the given fragments
Page(hasScriptTag, scriptSrc, hasPixelSrc, pixelSrc, hasHtmlAttr, htmlAttr) ==
    [hasScriptTag |-> hasScriptTag, scriptSrc |-> scriptSrc,
     hasPixelSrc |-> hasPixelSrc, pixelSrc |-> pixelSrc,
     hasHtmlAttr |-> hasHtmlAttr, htmlAttr |-> htmlAttr]

\* https://x.example/akam/12/ab
PixelSrc == << <<"https:">>, <<>>, <<"x.example">>, <<"akam">>, <<"1", "2">>, <<"a", "b">> >>

\* the pages a site serves: no challenge at all, the SDK alone, the pixel
\* challenge alone, both, and both with the pixel HTML variable missing
PageBodies ==
    { Page(FALSE, <<>>, FALSE, <<>>, FALSE, <<>>),
      Page(TRUE, <<"/", "a">>, FALSE, <<>>, FALSE, <<>>),
      Page(FALSE, <<>>, TRUE, PixelSrc, TRUE, <<"5", "0", "0">>),
      Page(TRUE, <<"/", "a">>, TRUE, PixelSrc, TRUE, <<"5", "0", "0">>),
      Page(TRUE, <<"/", "a">>, TRUE, PixelSrc, FALSE, <<>>) }

\* a pixel script with the given fragments
PixelScript(hasIndexRef, indexRef, hasArrayDecl, arrayStrings) ==
    [hasIndexRef |-> hasIndexRef, indexRef |-> indexRef,
     hasArrayDecl |-> hasArrayDecl, arrayStrings |-> arrayStrings]

\* the pixel scripts a site serves: g=_[1] with var _=["\x61","\x62"]; and one
\* without the index reference
PixelScripts ==
    { PixelScript(TRUE, <<"1">>, TRUE, << <<"\\", "x", "6", "1">>, <<"\\", "x", "6", "2">> >>),
      PixelScript(FALSE, <<>>, TRUE, << <<"\\", "x", "6", "1">> >>) }

(***************************************************************************)
(* The remote API.  A response of the API is what session.client.Do and    *)
(* io.ReadAll hand to the operation: a transport error, or a status code   *)
(* and a body; a body is JSON or not, and a JSON body has its fields.      *)
(***************************************************************************)
ApiBody(isJson, message, payload, success, scriptValues) ==
    [isJson |-> isJson, message |-> message, payload |-> payload,
     success |-> success, scriptValues |-> scriptValues]

ApiResponse(err, statusCode, body) == [err |-> err, statusCode |-> statusCode, body |-> body]

NoBody == ApiBody(FALSE, "", <<>>, FALSE, <<>>)

\* what the API answers to an operation whose success status is okStatus; the
\* payload of a success holds a double quote and a backslash
ApiResponses(okStatus) ==
    { ApiResponse(TransportError, 0, NoBody),
      ApiResponse(Nil, okStatus, ApiBody(TRUE, "", <<"p", "\"", "\\">>, TRUE, <<"v">>)),
      ApiResponse(Nil, StatusInternalServerError, ApiBody(TRUE, "m", <<>>, FALSE, <<>>)),
      ApiResponse(Nil, StatusInternalServerError, NoBody) }

\* GetMessageFromErrorResponse: the message field, "" when the body is not JSON
GetMessageFromErrorResponse(body) == IF ~body.isJson THEN "" ELSE body.message

\* Session.GenerateSensorData, from client.Do on: the payload and the error
GenerateSensorData(response) ==
    IF response.err # Nil THEN [Payload |-> <<>>, err |-> response.err]
    ELSE IF response.statusCode # StatusCreated
    THEN [Payload |-> <<>>,
          err |-> ApiOperationError(response.statusCode,
                                    GetMessageFromErrorResponse(response.body))]
    ELSE IF ~response.body.isJson THEN [Payload |-> <<>>, err |-> JsonError]
    ELSE [Payload |-> response.body.payload, err |-> Nil]

\* Session.GeneratePixelPayload, from client.Do on
GeneratePixelPayload(response) ==
    IF response.err # Nil THEN [Payload |-> <<>>, err |-> response.err]
    ELSE IF response.statusCode # StatusCreated
    THEN [Payload |-> <<>>,
          err |-> ApiOperationError(response.statusCode,
                                    GetMessageFromErrorResponse(response.body))]
    ELSE IF ~response.body.isJson THEN [Payload |-> <<>>, err |-> JsonError]
    ELSE [Payload |-> response.body.payload, err |-> Nil]

\* Session.GetDynamicScriptValues, from client.Do on: the body is decoded
\* before the status code is looked at
GetDynamicScriptValues(response) ==
    IF response.err # Nil THEN [Success |-> FALSE, ScriptValues |-> <<>>, err |-> response.err]
    ELSE IF ~response.body.isJson
    THEN [Success |-> FALSE, ScriptValues |-> <<>>, err |-> JsonError]
    ELSE IF response.statusCode # StatusOK
    THEN [Success |-> FALSE, ScriptValues |-> <<>>,
          err |-> ApiOperationError(response.statusCode, response.body.message)]
    ELSE [Success |-> response.body.success,
          ScriptValues |-> response.body.scriptValues, err |-> Nil]

(***************************************************************************)
(* The caller's collaborators.                                             *)
(***************************************************************************)
\* the status codes a site answers with
Statuses == {StatusOK, StatusCreated, StatusNotFound, StatusInternalServerError}

HttpOutcome(err, statusCode, body) == [err |-> err, statusCode |-> statusCode, body |-> body]

\* what a DoHttpReqFunc returns for a request whose 200 answer has a body of bodies
HttpOutcomes(bodies) ==
    {HttpOutcome(TransportError, 0, <<>>)}
        \cup {HttpOutcome(Nil, StatusOK, b) : b \in bodies}
        \cup {HttpOutcome(Nil, st, <<>>) : st \in Statuses \ {StatusOK}}

\* the values the _abck cookie takes: absent, and with the stop signal
\* threshold 0, 1 and -1
AbckValues ==
    { <<>>,
      <<"a", "~", "0", "~", "b">>,
      <<"a", "~", "1", "~", "b">>,
      <<"a", "~", "-", "1", "~", "b">> }

Branches == {"pixel", "sensor"}

PixelStepNames == {"htmlVar", "getScript", "scriptVar", "generate", "post"}

RemoteOps == {"sensor", "pixel", "dynamic"}

VARIABLES
    doHttpReq,     \* the DoHttpReqFunc passed to Generate: "nil" or "func"
    getCookie,     \* the GetCookieFunc passed to Generate: "nil" or "func"
    maxTries,      \* the maxTries passed to Generate
    pageUrl,       \* the pageUrl passed to Generate
    pc,            \* where Generate's own goroutine is
    result,        \* what Generate returned (or its panic)
    u,             \* the parsed page URL
    pageBody,      \* the fetched page
    wg,            \* the WaitGroup counter
    errs,          \* the errors reported by the workers
    mu,            \* the mutex of addError: "unlocked", or the branch holding it
    bpc,           \* where each worker goroutine is
    pending,       \* the error each worker is passing to addError
    pixel,         \* the locals of the pixel goroutine
    sensor,        \* the locals of the sensor goroutine
    abck,          \* the _abck cookie of the caller's jar
    httpCount,     \* history: the calls of doHttpReq, by op
    remoteCount,   \* history: the calls of the remote API, by operation
    cookieCount,   \* history: the calls of getCookie
    pixelSteps,    \* history: how often each pixel step was performed
    stop,          \* history: the last call of IsCookieValid by the sensor loop
    postAbck,      \* history: the _abck cookie as the last sensor POST left it
    postAbckSame,  \* history: every sensor POST so far left the same _abck cookie
    failedAt,      \* history: the step each worker failed at, "" for none
    httpOut,       \* history: the URL and method of the last doHttpReq, and the error and
                   \* status code it returned, by op
    remoteErr,     \* history: the error of the last call of the remote API, by operation
    errBy,         \* history: the worker that appended each element of errs
    slice,         \* the errs (and errBy) each worker read for its append
    remoteCall,    \* history: the request and the response of the last call of the remote
                   \* API, by operation
    call           \* the call of an exported helper, when one is studied on its own

inputs == <<doHttpReq, getCookie, maxTries, pageUrl, call>>

main == <<pc, result, u, pageBody>>

collector == <<errs, mu, errBy, slice>>

workers == <<bpc, pending, pixel, sensor, wg, failedAt>>

history == <<httpCount, remoteCount, cookieCount, pixelSteps, stop, postAbck, postAbckSame,
             httpOut,
             remoteErr, remoteCall>>

vars == <<inputs, main, collector, workers, abck, history>>

NoPage == Page(FALSE, <<>>, FALSE, <<>>, FALSE, <<>>)

NoUrl == [err |-> Nil, Scheme |-> <<>>, Host |-> <<>>]

NoRequest ==
    [UserAgent |-> "", Version |-> "", PageURL |-> "", Abck |-> <<>>, BmSz |-> <<>>,
     ScriptValues |-> <<>>]

NoResponse == ApiResponse(Nil, 0, NoBody)

NoCall == [fn |-> "", done |-> FALSE]

\* nothing of Generate has run
NotStarted ==
    /\ pc = "start"
    /\ result = Nil
    /\ u = NoUrl
    /\ pageBody = NoPage
    /\ wg = 0
    /\ errs = <<>>
    /\ mu = "unlocked"
    /\ errBy = <<>>
    /\ slice = [b \in Branches |-> [errs |-> <<>>, errBy |-> <<>>]]
    /\ bpc = [b \in Branches |-> "idle"]
    /\ pending = [b \in Branches |-> Nil]
    /\ pixel = [scriptUrl |-> <<>>, postUrl |-> <<>>, htmlVar |-> 0, scriptVar |-> <<>>,
                payload |-> <<>>]
    /\ sensor = [scriptUrl |-> <<>>, scriptBody |-> <<>>, version |-> "", scriptValues |-> <<>>,
                 i |-> 0, request |-> NoRequest, payload |-> <<>>, body |-> <<>>]
    /\ httpCount = [op \in HttpReqOps |-> 0]
    /\ remoteCount = [op \in RemoteOps |-> 0]
    /\ cookieCount = 0
    /\ pixelSteps = [st \in PixelStepNames |-> 0]
    /\ stop = [count |-> 0, value |-> <<>>, requestCount |-> 0, complete |-> FALSE]
    /\ postAbck = <<>>
    /\ postAbckSame = TRUE
    /\ failedAt = [b \in Branches |-> ""]
    /\ httpOut = [op \in HttpReqOps |->
                      [url |-> <<>>, method |-> "", err |-> Nil, statusCode |-> 0]]
    /\ remoteErr = [op \in RemoteOps |-> Nil]
    /\ remoteCall = [op \in RemoteOps |-> [headers |-> {}, response |-> NoResponse]]

Init ==
    /\ doHttpReq \in {"nil", "func"}
    /\ getCookie \in {"nil", "func"}
    /\ maxTries \in (0 - 1)..MaxTries
    /\ pageUrl \in PageUrls
    /\ abck \in AbckValues
    /\ call = NoCall
    /\ NotStarted

(***************************************************************************)
(* Generate's own goroutine.                                               *)
(***************************************************************************)
Panic(msg) == [type |-> "panic", msg |-> msg]

\* generate.go 141-159: the preconditions, checked before any request
Validate ==
    /\ pc = "start"
    /\ UNCHANGED <<inputs, pageBody, collector, workers, abck, history>>
    /\ IF doHttpReq = "nil"
       THEN pc' = "panicked" /\ result' = Panic("nil DoHttpReqFunc") /\ u' = u
       ELSE IF getCookie = "nil"
       THEN pc' = "panicked" /\ result' = Panic("nil GetCookieFunc") /\ u' = u
       ELSE IF maxTries <= 0
       THEN pc' = "panicked" /\ result' = Panic("maxTries <= 0") /\ u' = u
       ELSE LET parsed == UrlParse(pageUrl)
            IN  IF parsed.err # Nil
                THEN pc' = "returned" /\ result' = parsed.err /\ u' = u
                ELSE IF ~IsAbs(parsed)
                THEN pc' = "returned" /\ result' = ErrInvalidPageURL /\ u' = u
                ELSE pc' = "getPage" /\ result' = result /\ u' = parsed

Count(counter, key) == [counter EXCEPT ![key] = @ + 1]

MethodGet == "GET"

MethodPost == "POST"

\* history: doHttpReq was called for op with url and method, and returned out
Called(op, url, method, out) ==
    /\ httpCount' = Count(httpCount, op)
    /\ httpOut' = [httpOut EXCEPT ![op] = [url |-> url, method |-> method, err |-> out.err,
                                           statusCode |-> out.statusCode]]

\* the headers each operation of the remote API sets on its request
RequestHeaders(op) ==
    CASE op = "sensor" -> {"User-Agent", "x-api-key", "Content-Type"}
      [] op = "pixel" -> {"User-Agent", "Content-Type"}
      [] op = "dynamic" -> {"Content-Type"}

\* history: the remote API operation op sent its request, got apiResponse and
\* returned err
Delegated(op, apiResponse, err) ==
    /\ remoteCount' = Count(remoteCount, op)
    /\ remoteErr' = [remoteErr EXCEPT ![op] = err]
    /\ remoteCall' = [remoteCall EXCEPT ![op] = [headers |-> RequestHeaders(op),
                                                 response |-> apiResponse]]

\* mutant: every 2xx status is taken for a success
GetErrorMutant(out) ==
    IF out.err = Nil /\ (out.statusCode < 200 \/ out.statusCode >= 300)
    THEN BadStatusCodeError(out.statusCode)
    ELSE out.err

\* the error of a GET: the executor's, or BadStatusCodeError for a status other than 200
GetError(out) ==
    IF out.err = Nil /\ out.statusCode # StatusOK
    THEN BadStatusCodeError(out.statusCode)
    ELSE out.err

\* generate.go 161-168: GET pageUrl
GetPage ==
    /\ pc = "getPage"
    /\ \E out \in HttpOutcomes(PageBodies) :
          LET err == GetError(out)
          IN  /\ Called(OpGetPage, <<pageUrl>>, MethodGet, out)
              /\ IF err # Nil
                 THEN /\ result' = ErrorsJoin(<<HttpOpError(OpGetPage), err>>)
                      /\ pc' = "returned"
                      /\ pageBody' = pageBody
                 ELSE /\ result' = result
                      /\ pc' = "fork"
                      /\ pageBody' = out.body
    /\ UNCHANGED <<inputs, u, collector, workers, abck>>
    /\ UNCHANGED <<remoteCount, remoteErr, remoteCall, cookieCount, pixelSteps, stop,
                   postAbck, postAbckSame>>

\* wg.Add(2)
WgAdd == 2

\* generate.go 170-184, 248: the WaitGroup, the collector and the two go statements
Fork ==
    /\ pc = "fork"
    /\ pc' = "wait"
    /\ wg' = WgAdd
    /\ bpc' = [b \in Branches |-> "start"]
    /\ UNCHANGED <<inputs, result, u, pageBody, collector, pending, pixel, sensor, failedAt>>
    /\ UNCHANGED <<abck, history>>

\* mutant: Generate waits for one worker only
WgWaitReturnsMutant == wg <= 1

\* wg.Wait() returns when the counter is zero
WgWaitReturns == wg = 0

\* generate.go 324-325: wg.Wait() and the joined errors
Return ==
    /\ pc = "wait"
    /\ WgWaitReturns
    /\ pc' = "returned"
    /\ result' = ErrorsJoin(errs)
    /\ UNCHANGED <<inputs, u, pageBody, collector, workers, abck, history>>

(***************************************************************************)
(* The workers.  Every worker ends by wg.Done() (deferred).                *)
(***************************************************************************)
\* mutant: the worker returns without wg.Done()
FinishMutant(self) ==
    /\ bpc' = [bpc EXCEPT ![self] = "done"]
    /\ wg' = wg
    /\ UNCHANGED <<pending, failedAt>>

\* the worker returns: its deferred wg.Done() runs
Finish(self) ==
    /\ bpc' = [bpc EXCEPT ![self] = "done"]
    /\ wg' = wg - 1
    /\ UNCHANGED <<pending, failedAt>>

\* the worker calls addError(err) for the step it failed at, and will return
Fail(self, step, err) ==
    /\ bpc' = [bpc EXCEPT ![self] = "lock"]
    /\ pending' = [pending EXCEPT ![self] = err]
    /\ failedAt' = [failedAt EXCEPT ![self] = step]
    /\ wg' = wg

\* the worker goes on to the step at
Goto(self, at) ==
    /\ bpc' = [bpc EXCEPT ![self] = at]
    /\ UNCHANGED <<pending, failedAt, wg>>

\* mutant: mu.Lock() never blocks
MuLockGrantedMutant == TRUE

\* mu.Lock() is granted when no goroutine holds mu
MuLockGranted == mu = "unlocked"

\* generate.go 178: mu.Lock()
AddErrorLock(self) ==
    /\ bpc[self] = "lock"
    /\ MuLockGranted
    /\ mu' = self
    /\ Goto(self, "append")
    /\ UNCHANGED <<inputs, main, errs, errBy, slice, pixel, sensor, abck, history>>

\* generate.go 179: errs = append(errs, err) reads errs ...
AddErrorRead(self) ==
    /\ bpc[self] = "append"
    /\ slice' = [slice EXCEPT ![self] = [errs |-> errs, errBy |-> errBy]]
    /\ Goto(self, "store")
    /\ UNCHANGED <<inputs, main, errs, mu, errBy, pixel, sensor, abck, history>>

\* mutant: the error is appended twice
AppendErrorMutant(list, err) == Append(Append(list, err), err)

\* append(errs, err)
AppendError(list, err) == Append(list, err)

\* generate.go 179: ... and assigns the slice with err appended to errs
AddErrorAppend(self) ==
    /\ bpc[self] = "store"
    /\ errs' = AppendError(slice[self].errs, pending[self])
    /\ errBy' = Append(slice[self].errBy, self)
    /\ Goto(self, "unlock")
    /\ UNCHANGED <<inputs, main, mu, slice, pixel, sensor, abck, history>>

\* mutant: addError returns without mu.Unlock()
AddErrorUnlockMutant(self) ==
    /\ bpc[self] = "unlock"
    /\ mu' = mu
    /\ Finish(self)
    /\ UNCHANGED <<inputs, main, errs, errBy, slice, pixel, sensor, abck, history>>

\* generate.go 180: mu.Unlock(), and the return that follows every addError
AddErrorUnlock(self) ==
    /\ bpc[self] = "unlock"
    /\ mu' = "unlocked"
    /\ Finish(self)
    /\ UNCHANGED <<inputs, main, errs, errBy, slice, pixel, sensor, abck, history>>

(***************************************************************************)
(* The pixel goroutine, generate.go 184-245.                               *)
(***************************************************************************)
\* mutant: a page without the pixel challenge is an error
PixelDetectMutant ==
    /\ bpc["pixel"] = "start"
    /\ LET found == GetPixelChallengeScriptURL(pageBody)
           htmlVar == GetPixelChallengeHtmlVar(pageBody)
       IN  /\ pixelSteps' = Count(pixelSteps, "htmlVar")
           /\ IF ~found.ok \/ htmlVar.err # Nil
              THEN Fail("pixel", "htmlVar", htmlVar.err) /\ pixel' = pixel
              ELSE /\ Goto("pixel", "getScript")
                   /\ pixel' = [pixel EXCEPT !.scriptUrl = found.scriptUrl,
                                             !.postUrl = found.postUrl,
                                             !.htmlVar = htmlVar.v]
    /\ UNCHANGED <<inputs, main, collector, sensor, abck>>
    /\ UNCHANGED <<httpCount, httpOut, remoteCount, remoteErr, remoteCall, cookieCount, stop,
                   postAbck, postAbckSame>>

\* generate.go 187-199: the script URL, the post URL and the HTML variable
PixelDetect ==
    /\ bpc["pixel"] = "start"
    /\ LET found == GetPixelChallengeScriptURL(pageBody)
           htmlVar == GetPixelChallengeHtmlVar(pageBody)
       IN  IF ~found.ok
           THEN Finish("pixel") /\ UNCHANGED <<pixel, pixelSteps>>
           ELSE /\ pixelSteps' = Count(pixelSteps, "htmlVar")
                /\ IF htmlVar.err # Nil
                   THEN Fail("pixel", "htmlVar", htmlVar.err) /\ pixel' = pixel
                   ELSE /\ Goto("pixel", "getScript")
                        /\ pixel' = [pixel EXCEPT !.scriptUrl = found.scriptUrl,
                                                  !.postUrl = found.postUrl,
                                                  !.htmlVar = htmlVar.v]
    /\ UNCHANGED <<inputs, main, collector, sensor, abck>>
    /\ UNCHANGED <<httpCount, httpOut, remoteCount, remoteErr, remoteCall, cookieCount, stop,
                   postAbck, postAbckSame>>

\* mutant: every 4xx and 5xx status is taken for a solved challenge
IsAlreadySolvedMutant(statusCode) == statusCode >= 400

\* the pixel script answers 404 once the challenge is solved
IsAlreadySolved(statusCode) == statusCode = StatusNotFound

\* generate.go 201-221: GET the pixel script, and the script variable
PixelGetScript ==
    /\ bpc["pixel"] = "getScript"
    /\ \E out \in HttpOutcomes(PixelScripts) :
          LET err == GetError(out)
              scriptVar == GetPixelChallengeScriptVar(out.body)
          IN  /\ Called(OpGetPixelChallengeScript, pixel.scriptUrl, MethodGet, out)
              /\ IF out.err = Nil /\ out.statusCode # StatusOK /\ IsAlreadySolved(out.statusCode)
                 THEN /\ Finish("pixel")
                      /\ pixelSteps' = Count(pixelSteps, "getScript")
                      /\ pixel' = pixel
                 ELSE IF err # Nil
                 THEN /\ Fail("pixel", "getScript", err)
                      /\ pixelSteps' = Count(pixelSteps, "getScript")
                      /\ pixel' = pixel
                 ELSE /\ pixelSteps' = Count(Count(pixelSteps, "getScript"), "scriptVar")
                      /\ IF scriptVar.err # Nil
                         THEN Fail("pixel", "scriptVar", scriptVar.err) /\ pixel' = pixel
                         ELSE /\ Goto("pixel", "generate")
                              /\ pixel' = [pixel EXCEPT !.scriptVar = scriptVar.v]
    /\ UNCHANGED <<inputs, main, collector, sensor, abck>>
    /\ UNCHANGED <<remoteCount, remoteErr, remoteCall, cookieCount, stop, postAbck, postAbckSame>>

\* mutant: a failed remote call is tried again
PixelGenerateMutant ==
    /\ bpc["pixel"] = "generate"
    /\ \E apiResponse \in ApiResponses(StatusCreated) :
          LET response == GeneratePixelPayload(apiResponse)
          IN  /\ Delegated("pixel", apiResponse, response.err)
              /\ pixelSteps' = Count(pixelSteps, "generate")
              /\ IF response.err # Nil
                 THEN Goto("pixel", "generate") /\ pixel' = pixel
                 ELSE /\ Goto("pixel", "post")
                      /\ pixel' = [pixel EXCEPT !.payload = response.Payload]
    /\ UNCHANGED <<inputs, main, collector, sensor, abck>>
    /\ UNCHANGED <<httpCount, httpOut, cookieCount, stop, postAbck, postAbckSame>>

\* generate.go 223-232: the payload, from the remote API
PixelGenerate ==
    /\ bpc["pixel"] = "generate"
    /\ \E apiResponse \in ApiResponses(StatusCreated) :
          LET response == GeneratePixelPayload(apiResponse)
          IN  /\ Delegated("pixel", apiResponse, response.err)
              /\ pixelSteps' = Count(pixelSteps, "generate")
              /\ IF response.err # Nil
                 THEN Fail("pixel", "generate", response.err) /\ pixel' = pixel
                 ELSE /\ Goto("pixel", "post")
                      /\ pixel' = [pixel EXCEPT !.payload = response.Payload]
    /\ UNCHANGED <<inputs, main, collector, sensor, abck>>
    /\ UNCHANGED <<httpCount, httpOut, cookieCount, stop, postAbck, postAbckSame>>

\* mutant: a status code other than 200 on a POST is an error
PostErrorMutant(out) == GetError(out)

\* generate.go 235 and 307: of what doHttpReq returns for a POST only the error
\* is kept (_, _, err)
PostError(out) == out.err

\* generate.go 234-244: POST the payload; the status code is not looked at
PixelPost ==
    /\ bpc["pixel"] = "post"
    /\ \E out \in HttpOutcomes({<<>>}) :
          /\ Called(OpPostPixelPayload, pixel.postUrl, MethodPost, out)
          /\ pixelSteps' = Count(pixelSteps, "post")
          /\ IF PostError(out) # Nil
             THEN Fail("pixel", "post", PostError(out))
             ELSE Finish("pixel")
    /\ UNCHANGED <<inputs, main, collector, pixel, sensor, abck>>
    /\ UNCHANGED <<remoteCount, remoteErr, remoteCall, cookieCount, stop, postAbck, postAbckSame>>

(***************************************************************************)
(* The sensor goroutine, generate.go 248-322.                              *)
(***************************************************************************)
UserAgent == "ua"

\* the bm_sz cookie of the caller's jar
BmSzValue == <<"z">>

\* the caller's GetCookieFunc: the jar's value of the cookie
GetCookie(name) == IF name = "_abck" THEN abck ELSE BmSzValue

\* fmt.Sprintf("%s://%s%s", u.Scheme, u.Host, scriptPath)
SdkScriptUrl(url, scriptPath) == url.Scheme \o <<"://">> \o url.Host \o scriptPath

\* generate.go 251-258: the script path and the script URL
SensorStart ==
    /\ bpc["sensor"] = "start"
    /\ LET scriptPath == GetScriptPath(pageBody)
       IN  IF scriptPath = <<>>
           THEN Finish("sensor") /\ sensor' = sensor
           ELSE /\ Goto("sensor", "getScript")
                /\ sensor' = [sensor EXCEPT !.scriptUrl = SdkScriptUrl(u, scriptPath)]
    /\ UNCHANGED <<inputs, main, collector, pixel, abck, history>>

\* mutant: the version of the script is not looked at
NeedsDynamicValuesMutant(version, scriptBody) == ~IsScriptStatic(scriptBody)

\* generate.go 276: the dynamic script values are needed
NeedsDynamicValues(version, scriptBody) == version = Version2 /\ ~IsScriptStatic(scriptBody)

\* generate.go 260-276: GET the SDK script, its version, and where to go on
SensorGetScript ==
    /\ bpc["sensor"] = "getScript"
    /\ \E out \in HttpOutcomes(SdkScripts) :
          LET err == GetError(out)
              version == GetSdkVersion(out.body)
          IN  /\ Called(OpGetSdkScript, sensor.scriptUrl, MethodGet, out)
              /\ IF err # Nil
                 THEN Fail("sensor", "getScript", err) /\ sensor' = sensor
                 ELSE /\ sensor' = [sensor EXCEPT !.scriptBody = out.body, !.version = version]
                      /\ IF NeedsDynamicValues(version, out.body)
                         THEN Goto("sensor", "dynamic")
                         ELSE Goto("sensor", "loop")
    /\ UNCHANGED <<inputs, main, collector, pixel, abck>>
    /\ UNCHANGED <<remoteCount, remoteErr, remoteCall, cookieCount, pixelSteps, stop,
                   postAbck, postAbckSame>>

\* generate.go 277-286: the dynamic script values, from the remote API
SensorDynamicValues ==
    /\ bpc["sensor"] = "dynamic"
    /\ \E apiResponse \in ApiResponses(StatusOK) :
          LET response == GetDynamicScriptValues(apiResponse)
          IN  /\ Delegated("dynamic", apiResponse, response.err)
              /\ IF response.err # Nil
                 THEN Fail("sensor", "dynamic", response.err) /\ sensor' = sensor
                 ELSE /\ Goto("sensor", "loop")
                      /\ sensor' = [sensor EXCEPT !.scriptValues =
                                        IF response.Success THEN response.ScriptValues ELSE <<>>]
    /\ UNCHANGED <<inputs, main, collector, pixel, abck>>
    /\ UNCHANGED <<httpCount, httpOut, cookieCount, pixelSteps, stop, postAbck, postAbckSame>>

\* mutant: the loop runs once more
LoopContinuesMutant(i, tries) == i <= tries

\* generate.go 289: the loop condition
LoopContinues(i, tries) == i < tries

\* generate.go 289-296: the loop condition, and the request with the _abck cookie
SensorLoop ==
    /\ bpc["sensor"] = "loop"
    /\ IF ~LoopContinues(sensor.i, maxTries)
       THEN Finish("sensor") /\ UNCHANGED <<sensor, cookieCount>>
       ELSE /\ sensor' = [sensor EXCEPT !.request =
                             [UserAgent |-> UserAgent,
                              Version |-> sensor.version,
                              PageURL |-> pageUrl,
                              Abck |-> GetCookie("_abck"),
                              BmSz |-> <<>>,
                              ScriptValues |-> sensor.scriptValues]]
            /\ cookieCount' = cookieCount + 1
            /\ IF sensor.version = Version2
               THEN Goto("sensor", "bmsz")
               ELSE Goto("sensor", "generate")
    /\ UNCHANGED <<inputs, main, collector, pixel, abck>>
    /\ UNCHANGED <<httpCount, httpOut, remoteCount, remoteErr, remoteCall, pixelSteps, stop,
                   postAbck, postAbckSame>>

\* generate.go 297-299: the bm_sz cookie, for version 2
SensorBmSz ==
    /\ bpc["sensor"] = "bmsz"
    /\ sensor' = [sensor EXCEPT !.request.BmSz = GetCookie("bm_sz")]
    /\ cookieCount' = cookieCount + 1
    /\ Goto("sensor", "generate")
    /\ UNCHANGED <<inputs, main, collector, pixel, abck>>
    /\ UNCHANGED <<httpCount, httpOut, remoteCount, remoteErr, remoteCall, pixelSteps, stop,
                   postAbck, postAbckSame>>

\* mutant: a failed remote call makes the loop continue with the next iteration
SensorGenerateMutant ==
    /\ bpc["sensor"] = "generate"
    /\ \E apiResponse \in ApiResponses(StatusCreated) :
          LET response == GenerateSensorData(apiResponse)
          IN  /\ Delegated("sensor", apiResponse, response.err)
              /\ IF response.err # Nil
                 THEN /\ Goto("sensor", "loop")
                      /\ sensor' = [sensor EXCEPT !.i = @ + 1]
                 ELSE /\ Goto("sensor", "post")
                      /\ sensor' = [sensor EXCEPT !.payload = response.Payload]
    /\ UNCHANGED <<inputs, main, collector, pixel, abck>>
    /\ UNCHANGED <<httpCount, httpOut, cookieCount, pixelSteps, stop, postAbck, postAbckSame>>

\* generate.go 301-305: the sensor data, from the remote API
SensorGenerate ==
    /\ bpc["sensor"] = "generate"
    /\ \E apiResponse \in ApiResponses(StatusCreated) :
          LET response == GenerateSensorData(apiResponse)
          IN  /\ Delegated("sensor", apiResponse, response.err)
              /\ IF response.err # Nil
                 THEN Fail("sensor", "generate", response.err) /\ sensor' = sensor
                 ELSE /\ Goto("sensor", "post")
                      /\ sensor' = [sensor EXCEPT !.payload = response.Payload]
    /\ UNCHANGED <<inputs, main, collector, pixel, abck>>
    /\ UNCHANGED <<httpCount, httpOut, cookieCount, pixelSteps, stop, postAbck, postAbckSame>>

RECURSIVE JsonEscape(_)
\* the characters of a string as a JSON encoder writes them
JsonEscape(str) ==
    IF str = <<>> THEN <<>>
    ELSE (IF Head(str) \in {"\"", "\\"} THEN <<"\\", Head(str)>> ELSE <<Head(str)>>)
             \o JsonEscape(Tail(str))

\* mutant: the payload is written as a JSON string
SensorDataBodyMutant(payload) == <<"{\"sensor_data\":\"">> \o JsonEscape(payload) \o <<"\"}">>

\* generate.go 311: fmt.Sprintf(`{"sensor_data":"%s"}`, response.Payload)
SensorDataBody(payload) == <<"{\"sensor_data\":\"">> \o payload \o <<"\"}">>

\* mutant: the sensor data is posted to the page
SensorPostUrlMutant == <<pageUrl>>

\* generate.go 310: the sensor data is posted to the URL of the SDK script
SensorPostUrl == sensor.scriptUrl

\* generate.go 307-316: POST the sensor data; the status code is not looked at.
\* The answer of the site sets the _abck cookie of the jar.
SensorPost ==
    /\ bpc["sensor"] = "post"
    /\ sensor' = [sensor EXCEPT !.body = SensorDataBody(sensor.payload)]
    /\ \E out \in HttpOutcomes({<<>>}) :
          /\ Called(OpPostSensorData, SensorPostUrl, MethodPost, out)
          /\ IF PostError(out) # Nil
             THEN /\ Fail("sensor", "post", PostError(out))
                  /\ UNCHANGED <<abck, postAbck, postAbckSame>>
             ELSE /\ Goto("sensor", "stop")
                  /\ \E value \in AbckValues :
                        /\ abck' = value
                        /\ postAbck' = value
                        /\ postAbckSame' = (/\ postAbckSame
                                            /\ httpCount[OpPostSensorData] > 0 => value = postAbck)
    /\ UNCHANGED <<inputs, main, collector, pixel>>
    /\ UNCHANGED <<remoteCount, remoteErr, remoteCall, cookieCount, pixelSteps, stop>>

\* mutant: the stop signal is evaluated on the cookie read for the request
StopSignalValueMutant == sensor.request.Abck

\* generate.go 318: the cookie value the stop signal is evaluated on
StopSignalValue == GetCookie("_abck")

\* mutant: the stop signal is evaluated with the number of POSTs made
StopSignalCountMutant(i) == i + 1

\* generate.go 318: the stop signal is evaluated with the loop counter i
StopSignalCount(i) == i

\* IsCookieValid on the cookie values and the request counts of the sensor loop
\* (computed once)
StopSignals ==
    [value \in AbckValues, requestCount \in 0..(MaxTries + 1) |->
        IsCookieValid(value, requestCount)]

\* generate.go 318-320, and the i++ of 289: the stop signal
SensorStopSignal ==
    /\ bpc["sensor"] = "stop"
    /\ LET complete == StopSignals[StopSignalValue, StopSignalCount(sensor.i)]
       IN  /\ stop' = [count |-> stop.count + 1, value |-> StopSignalValue,
                       requestCount |-> StopSignalCount(sensor.i), complete |-> complete]
           /\ cookieCount' = cookieCount + 1
           /\ IF complete
              THEN Finish("sensor") /\ sensor' = sensor
              ELSE Goto("sensor", "loop") /\ sensor' = [sensor EXCEPT !.i = @ + 1]
    /\ UNCHANGED <<inputs, main, collector, pixel, abck>>
    /\ UNCHANGED <<httpCount, httpOut, remoteCount, remoteErr, remoteCall, pixelSteps,
                   postAbck, postAbckSame>>

(***************************************************************************)
(* The specification.                                                      *)
(***************************************************************************)
Next ==
    \/ Validate
    \/ GetPage
    \/ Fork
    \/ Return
    \/ PixelDetect
    \/ PixelGetScript
    \/ PixelGenerate
    \/ PixelPost
    \/ SensorStart
    \/ SensorGetScript
    \/ SensorDynamicValues
    \/ SensorLoop
    \/ SensorBmSz
    \/ SensorGenerate
    \/ SensorPost
    \/ SensorStopSignal
    \/ \E self \in Branches : AddErrorLock(self)
    \/ \E self \in Branches : AddErrorRead(self)
    \/ \E self \in Branches : AddErrorAppend(self)
    \/ \E self \in Branches : AddErrorUnlock(self)

Spec == Init /\ [][Next]_vars

(***************************************************************************)
(* What the claims speak of.                                               *)
(***************************************************************************)
Other(b) == IF b = "pixel" THEN "sensor" ELSE "pixel"

\* the steps of one worker
BranchStep(b) ==
    \/ b = "pixel" /\ (PixelDetect \/ PixelGetScript \/ PixelGenerate \/ PixelPost)
    \/ b = "sensor" /\ (\/ SensorStart \/ SensorGetScript \/ SensorDynamicValues \/ SensorLoop
                        \/ SensorBmSz \/ SensorGenerate \/ SensorPost \/ SensorStopSignal)
    \/ AddErrorLock(b)
    \/ AddErrorRead(b)
    \/ AddErrorAppend(b)
    \/ AddErrorUnlock(b)

\* the worker is inside addError, or has returned
Stopped(b) == bpc[b] \in {"lock", "append", "store", "unlock", "done"}

\* the worker has appended an error to errs
Reported(b) == \E k \in 1..Len(errBy) : errBy[k] = b

\* the calls of doHttpReq so far
HttpCalls ==
    httpCount[OpGetPage] + httpCount[OpGetSdkScript] + httpCount[OpPostSensorData]
        + httpCount[OpGetPixelChallengeScript] + httpCount[OpPostPixelPayload]

\* the calls of the remote API so far
RemoteCalls == remoteCount["sensor"] + remoteCount["pixel"] + remoteCount["dynamic"]

\* the page fetch was made and answered 200 without an error
PageFetched ==
    /\ httpCount[OpGetPage] = 1
    /\ httpOut[OpGetPage].err = Nil
    /\ httpOut[OpGetPage].statusCode = StatusOK

\* the page fetch was made and failed: an error, or a status other than 200
PageFetchFailed ==
    /\ httpCount[OpGetPage] = 1
    /\ (httpOut[OpGetPage].err # Nil \/ httpOut[OpGetPage].statusCode # StatusOK)

\* the sensor POSTs so far
SensorPosts == httpCount[OpPostSensorData]

(***************************************************************************)
(* C1: Generate does not return before both workers have terminated, and   *)
(* when it returns after them its result is nil exactly when no worker     *)
(* collected an error.                                                     *)
(***************************************************************************)
C1_ReturnsAfterBothBranches ==
    (pc = "returned" /\ PageFetched) =>
        /\ \A b \in Branches : bpc[b] = "done"
        /\ wg = 0
        /\ (result = Nil) <=> (\A b \in Branches : failedAt[b] = "")
        /\ (result = Nil) <=> (errs = <<>>)

\* Generate returned an error after the pixel worker failed and the sensor worker did not
C1_Witness ==
    /\ pc = "returned"
    /\ PageFetched
    /\ failedAt["pixel"] # ""
    /\ failedAt["sensor"] = ""
    /\ SensorPosts > 0
    /\ result # Nil

C3_PageFetchFailureAborts ==
    PageFetchFailed =>
        /\ pc = "returned"
        /\ result = ErrorsJoin(<<HttpOpError(OpGetPage),
                                 IF httpOut[OpGetPage].err # Nil
                                 THEN httpOut[OpGetPage].err
                                 ELSE BadStatusCodeError(httpOut[OpGetPage].statusCode)>>)
        /\ \A b \in Branches : bpc[b] = "idle"
        /\ HttpCalls = 1
        /\ cookieCount = 0
        /\ RemoteCalls = 0

\* the page answered 404 and Generate returned
C3_Witness ==
    /\ PageFetchFailed
    /\ httpOut[OpGetPage].statusCode = StatusNotFound
    /\ pc = "returned"

(***************************************************************************)
(* C4: the sensor POSTs and the sensor data calls of the remote API made   *)
(* so far never exceed maxTries.                                           *)
(***************************************************************************)
C4_AtMostMaxTries ==
    /\ SensorPosts <= (IF maxTries > 0 THEN maxTries ELSE 0)
    /\ remoteCount["sensor"] <= (IF maxTries > 0 THEN maxTries ELSE 0)

\* the loop ran maxTries times, more than once
C4_Witness ==
    /\ maxTries > 1
    /\ SensorPosts = maxTries
    /\ remoteCount["sensor"] = maxTries
    /\ bpc["sensor"] = "done"

(***************************************************************************)
(* C5: the stop signal is evaluated after the POST of each iteration, on   *)
(* the _abck cookie as the jar holds it then (as that POST left it) and    *)
(* with the index of the iteration; when it reports complete the worker    *)
(* returns without an error and makes no further remote call or POST.      *)
(***************************************************************************)
C5_StopSignalOnFreshCookie ==
    /\ stop.count <= SensorPosts
    /\ SensorPosts <= stop.count + 1
    /\ (bpc["sensor"] \in {"loop", "bmsz", "generate"}) => stop.count = SensorPosts
    /\ (stop.count > 0) => stop.requestCount = stop.count - 1
    /\ (stop.count > 0 /\ stop.count = SensorPosts) => stop.value = postAbck
    /\ (stop.count > 0) => stop.complete = IsCookieValid(stop.value, stop.requestCount)
    /\ stop.complete =>
          /\ bpc["sensor"] = "done"
          /\ failedAt["sensor"] = ""
          /\ ~Reported("sensor")
          /\ SensorPosts = stop.count
          /\ remoteCount["sensor"] = stop.count

\* the first POST set a cookie that differs from the one sent, the stop signal
\* was complete on it and the loop stopped before maxTries
C5_Witness ==
    /\ stop.complete
    /\ stop.count = 1
    /\ maxTries > 1
    /\ stop.value # sensor.request.Abck
    /\ bpc["sensor"] = "done"

(***************************************************************************)
(* C6: when the sensor data call of the remote API or the sensor POST of   *)
(* an iteration fails, the sensor worker passes that error to addError and *)
(* stops: no later remote call, POST or stop signal check is made.  When   *)
(* the remote call of the first iteration fails no sensor POST is made,    *)
(* and a pixel worker that did not fail leaves the sensor's error the only *)
(* one collected.                                                          *)
(***************************************************************************)
C6_SensorLoopAbortsOnFailure ==
    /\ (remoteErr["sensor"] # Nil) =>
          /\ failedAt["sensor"] = "generate"
          /\ pending["sensor"] = remoteErr["sensor"]
          /\ Stopped("sensor")
          /\ remoteCount["sensor"] = sensor.i + 1
          /\ SensorPosts = sensor.i
          /\ stop.count = sensor.i
    /\ (httpOut[OpPostSensorData].err # Nil) =>
          /\ failedAt["sensor"] = "post"
          /\ pending["sensor"] = httpOut[OpPostSensorData].err
          /\ Stopped("sensor")
          /\ remoteCount["sensor"] = sensor.i + 1
          /\ SensorPosts = sensor.i + 1
          /\ stop.count = sensor.i
    /\ (failedAt["sensor"] \in {"generate", "post"}) =>
          cookieCount = stop.count + (sensor.i + 1) * (IF sensor.version = Version2 THEN 2 ELSE 1)
    /\ (failedAt["sensor"] \in {"generate", "post"} /\ bpc["sensor"] = "done") =>
          \E k \in 1..Len(errs) : errBy[k] = "sensor" /\ errs[k] = pending["sensor"]
    /\ (pc = "returned" /\ failedAt["sensor"] = "generate" /\ failedAt["pixel"] = "") =>
          /\ bpc["pixel"] = "done"
          /\ errs = <<remoteErr["sensor"]>>

\* the remote call of the first iteration failed while the pixel worker
\* posted its payload, and Generate returned
C6_Witness ==
    /\ pc = "returned"
    /\ failedAt["sensor"] = "generate"
    /\ sensor.i = 0
    /\ maxTries > 1
    /\ SensorPosts = 0
    /\ failedAt["pixel"] = ""
    /\ httpCount[OpPostPixelPayload] = 1

(***************************************************************************)
(* C7: a 404 of the pixel script fetch ends the pixel worker without an    *)
(* error, a remote call or a POST; any other status than 200 ends it with  *)
(* BadStatusCodeError of that status.  A 404 of the page fetch or of the   *)
(* SDK script fetch is a failure.                                          *)
(***************************************************************************)
C7_PixelScript404IsSolved ==
    /\ (httpCount[OpGetPixelChallengeScript] > 0 /\ httpOut[OpGetPixelChallengeScript].err = Nil) =>
          LET statusCode == httpOut[OpGetPixelChallengeScript].statusCode
          IN  /\ (statusCode = StatusNotFound) =>
                    /\ bpc["pixel"] = "done"
                    /\ failedAt["pixel"] = ""
                    /\ ~Reported("pixel")
                    /\ remoteCount["pixel"] = 0
                    /\ httpCount[OpPostPixelPayload] = 0
              /\ (statusCode \notin {StatusOK, StatusNotFound}) =>
                    /\ failedAt["pixel"] = "getScript"
                    /\ pending["pixel"] = BadStatusCodeError(statusCode)
                    /\ Stopped("pixel")
                    /\ remoteCount["pixel"] = 0
                    /\ httpCount[OpPostPixelPayload] = 0
    /\ (httpCount[OpGetPage] > 0 /\ httpOut[OpGetPage].err = Nil
          /\ httpOut[OpGetPage].statusCode = StatusNotFound) =>
          /\ pc = "returned"
          /\ result = ErrorsJoin(<<HttpOpError(OpGetPage), BadStatusCodeError(StatusNotFound)>>)
    /\ (httpCount[OpGetSdkScript] > 0 /\ httpOut[OpGetSdkScript].err = Nil
          /\ httpOut[OpGetSdkScript].statusCode = StatusNotFound) =>
          /\ failedAt["sensor"] = "getScript"
          /\ pending["sensor"] = BadStatusCodeError(StatusNotFound)
          /\ Stopped("sensor")

\* the pixel script answered 404, the SDK script too, and Generate returned
\* the sensor worker's error alone
C7_Witness ==
    /\ pc = "returned"
    /\ httpOut[OpGetPixelChallengeScript].statusCode = StatusNotFound
    /\ httpOut[OpGetSdkScript].statusCode = StatusNotFound
    /\ errs = <<BadStatusCodeError(StatusNotFound)>>
    /\ errBy = <<"sensor">>

\* the pixel steps, in the order of the code
PixelStepOrder == <<"htmlVar", "getScript", "scriptVar", "generate", "post">>

(***************************************************************************)
(* C8: the pixel worker never retries: each pixel step is performed at     *)
(* most once, and after the first step that fails the worker appends that  *)
(* error, once, and performs no later step.                                *)
(***************************************************************************)
C8_PixelNeverRetries ==
    /\ \A st \in PixelStepNames : pixelSteps[st] <= 1
    /\ httpCount[OpGetPixelChallengeScript] <= 1
    /\ httpCount[OpPostPixelPayload] <= 1
    /\ remoteCount["pixel"] <= 1
    /\ \A k \in 1..5 :
          (failedAt["pixel"] = PixelStepOrder[k]) =>
              /\ Stopped("pixel")
              /\ pixelSteps[PixelStepOrder[k]] = 1
              /\ \A j \in (k + 1)..5 : pixelSteps[PixelStepOrder[j]] = 0
    /\ (remoteErr["pixel"] # Nil) =>
          failedAt["pixel"] = "generate" /\ pending["pixel"] = remoteErr["pixel"]
    /\ (httpOut[OpPostPixelPayload].err # Nil) =>
          failedAt["pixel"] = "post" /\ pending["pixel"] = httpOut[OpPostPixelPayload].err
    /\ Cardinality({k \in 1..Len(errBy) : errBy[k] = "pixel"}) <= 1
    /\ \A k \in 1..Len(errBy) : (errBy[k] = "pixel") => errs[k] = pending["pixel"]
    /\ (failedAt["pixel"] # "" /\ bpc["pixel"] = "done") => Reported("pixel")

\* the remote call of the pixel worker failed after its three earlier steps
\* and the worker returned with its one error
C8_Witness ==
    /\ failedAt["pixel"] = "generate"
    /\ bpc["pixel"] = "done"
    /\ pixelSteps["scriptVar"] = 1
    /\ pixelSteps["post"] = 0
    /\ Reported("pixel")

(***************************************************************************)
(* C9: when the page answers 200 and holds neither an SDK script tag nor   *)
(* the pixel challenge, doHttpReq is called once in all, the remote API    *)
(* and getCookie are never called, and Generate returns nil.               *)
(***************************************************************************)
C9_PlainPageIsSuccess ==
    (PageFetched /\ ~pageBody.hasScriptTag /\ ~pageBody.hasPixelSrc) =>
        /\ HttpCalls = 1
        /\ RemoteCalls = 0
        /\ cookieCount = 0
        /\ errs = <<>>
        /\ \A b \in Branches : failedAt[b] = ""
        /\ pc = "returned" => result = Nil

\* Generate returned for a page without challenges
C9_Witness ==
    /\ PageFetched
    /\ ~pageBody.hasScriptTag
    /\ ~pageBody.hasPixelSrc
    /\ pc = "returned"
    /\ result = Nil
    /\ \A b \in Branches : bpc[b] = "done"

\* the doc of ErrInvalidPageURL: an absolute URL must contain a scheme and host
IsAbsoluteURL(url) == url.Scheme # <<>> /\ url.Host # <<>>

\* a precondition of Generate is violated
PreconditionViolated ==
    \/ doHttpReq = "nil"
    \/ getCookie = "nil"
    \/ maxTries <= 0
    \/ UrlParse(pageUrl).err # Nil
    \/ ~IsAbsoluteURL(UrlParse(pageUrl))

(***************************************************************************)
(* C10: every precondition violation is reported before any I/O: a nil     *)
(* doHttpReq, a nil getCookie or maxTries <= 0 makes Generate panic, a     *)
(* page URL that does not parse or is not absolute makes it return an      *)
(* error (ErrInvalidPageURL when not absolute), and doHttpReq, getCookie   *)
(* and the remote API are never called.                                    *)
(***************************************************************************)
C10_PreconditionsBeforeIO ==
    (PreconditionViolated /\ pc # "start") =>
        /\ HttpCalls = 0
        /\ cookieCount = 0
        /\ RemoteCalls = 0
        /\ IF doHttpReq = "nil" \/ getCookie = "nil" \/ maxTries <= 0
           THEN pc = "panicked"
           ELSE /\ pc = "returned"
                /\ result # Nil
                /\ (UrlParse(pageUrl).err = Nil) => result = ErrInvalidPageURL

(***************************************************************************)
(* C11: Generate accepts a page URL only if it has both a scheme and a     *)
(* host: for a URL that parses with a scheme and an empty host it returns  *)
(* ErrInvalidPageURL and does not fetch the page.                          *)
(***************************************************************************)
C11_HostlessUrlRejected ==
    LET url == UrlParse(pageUrl)
    IN  (/\ pc \notin {"start", "panicked"}
         /\ url.err = Nil
         /\ url.Scheme # <<>>
         /\ url.Host = <<>>) =>
            /\ pc = "returned"
            /\ result = ErrInvalidPageURL
            /\ httpCount[OpGetPage] = 0

(***************************************************************************)
(* The exported helpers on their own: a call is drawn from bounded sets of *)
(* arguments, and the helper is applied to it.  Generate does not run.     *)
(***************************************************************************)
MaxLen == 4

\* the sequences over S of at most n elements
SeqsUpTo(S, n) == UNION {[1..k -> S] : k \in 0..n}

CookieChars == {"a", "~", "-", "+", "0", "1", "2"}

RequestCounts == (0 - 2)..2

IsCookieValidCalls ==
    {[fn |-> "IsCookieValid", done |-> FALSE, value |-> value, requestCount |-> n,
      result |-> FALSE] : value \in SeqsUpTo(CookieChars, MaxLen), n \in RequestCounts}

\* the characters of the value of the bazadebezolkohpepadr attribute
AttrChars == {"a", "5", "0"}

\* a value of digits that is out of the range of int
OverflowingDigits == [k \in 1..20 |-> "9"]

GetPixelChallengeHtmlVarCalls ==
    {[fn |-> "GetPixelChallengeHtmlVar", done |-> FALSE,
      src |-> Page(FALSE, <<>>, FALSE, <<>>, hasHtmlAttr, htmlAttr),
      result |-> [v |-> 0, err |-> Nil]] :
        hasHtmlAttr \in BOOLEAN,
        htmlAttr \in SeqsUpTo(AttrChars, MaxLen) \cup {OverflowingDigits}}

\* the code points of the characters of a string to escape: NUL, A, the
\* backslash, x, DEL, and three that UTF-8 encodes in two bytes
CharCodes == {0, 65, 92, 120, 127, 128, 233, 255}

RECURSIVE HexEscape(_)
\* every character written as a backslash, x and the two hexadecimal digits of
\* its code point
HexEscape(chars) ==
    IF chars = <<>> THEN <<>>
    ELSE <<"\\", "x", HexDigits[(Head(chars) \div 16) + 1], HexDigits[(Head(chars) % 16) + 1]>>
             \o HexEscape(Tail(chars))

RECURSIVE Utf8(_)
\* the bytes of a Go string of the given characters
Utf8(chars) ==
    IF chars = <<>> THEN <<>>
    ELSE LET c == Head(chars)
         IN  (IF c < 128 THEN <<c>> ELSE <<192 + (c \div 64), 128 + (c % 64)>>)
                 \o Utf8(Tail(chars))

FromHexStringCalls ==
    {[fn |-> "FromHexString", done |-> FALSE, chars |-> chars, s |-> HexEscape(chars),
      result |-> [v |-> <<>>, err |-> Nil]] : chars \in SeqsUpTo(CharCodes, MaxLen)}

MaxEntries == 2

\* the quoted entries of the array of a pixel script: \x61, \x62\x63, one with
\* an escape that is not hexadecimal (\xzz), one without an escape, the empty one
ArrayEntries ==
    { <<"\\", "x", "6", "1">>,
      <<"\\", "x", "6", "2", "\\", "x", "6", "3">>,
      <<"\\", "x", "z", "z">>,
      <<"a", "b">>,
      <<>> }

\* what stands between the brackets of g=_[...]: nothing, an index, no number,
\* and a number out of the range of int
IndexRefs == {<<>>, <<"0">>, <<"1">>, <<"2">>, <<"a">>, OverflowingDigits}

GetPixelChallengeScriptVarCalls ==
    {[fn |-> "GetPixelChallengeScriptVar", done |-> FALSE,
      src |-> PixelScript(hasIndexRef, indexRef, hasArrayDecl, arrayStrings),
      result |-> [v |-> <<>>, err |-> Nil]] :
        hasIndexRef \in BOOLEAN, indexRef \in IndexRefs, hasArrayDecl \in BOOLEAN,
        arrayStrings \in SeqsUpTo(ArrayEntries, MaxEntries)}

\* the characters of the src attribute of a script tag: the separator, a word
\* character, the hyphen, and the dot, which the pattern does not take
SrcChars == {"/", "a", "-", "."}

GetScriptPathCalls ==
    {[fn |-> "GetScriptPath", done |-> FALSE,
      src |-> Page(hasScriptTag, scriptSrc, FALSE, <<>>, FALSE, <<>>), result |-> <<>>] :
        hasScriptTag \in BOOLEAN, scriptSrc \in SeqsUpTo(SrcChars, MaxLen)}

HelperCalls ==
    IsCookieValidCalls \cup GetPixelChallengeHtmlVarCalls \cup FromHexStringCalls
        \cup GetPixelChallengeScriptVarCalls \cup GetScriptPathCalls

HelperInit ==
    /\ call \in HelperCalls
    /\ doHttpReq = "func"
    /\ getCookie = "func"
    /\ maxTries = 1
    /\ pageUrl = "https://example.com/"
    /\ abck = <<>>
    /\ NotStarted

\* the helper called returns
Returns(fn, value) ==
    /\ call.fn = fn
    /\ ~call.done
    /\ call' = [call EXCEPT !.done = TRUE, !.result = value]
    /\ UNCHANGED <<doHttpReq, getCookie, maxTries, pageUrl, main, collector, workers, abck,
                   history>>

CallIsCookieValid == Returns("IsCookieValid", IsCookieValid(call.value, call.requestCount))

CallGetPixelChallengeHtmlVar ==
    Returns("GetPixelChallengeHtmlVar", GetPixelChallengeHtmlVar(call.src))

CallFromHexString == Returns("FromHexString", FromHexString(call.s))

CallGetPixelChallengeScriptVar ==
    Returns("GetPixelChallengeScriptVar", GetPixelChallengeScriptVar(call.src))

CallGetScriptPath == Returns("GetScriptPath", GetScriptPath(call.src))

HelperNext ==
    \/ CallIsCookieValid
    \/ CallGetPixelChallengeHtmlVar
    \/ CallFromHexString
    \/ CallGetPixelChallengeScriptVar
    \/ CallGetScriptPath

HelperSpec == HelperInit /\ [][HelperNext]_vars

\* the helper fn has returned
Returned(fn) == call.fn = fn /\ call.done

\* the number of ~-delimited fields of a cookie value
FieldCount(value) == Cardinality({k \in 1..Len(value) : value[k] = "~"}) + 1

\* the second ~-delimited field of a cookie value of two fields or more
SecondField(value) ==
    LET tildes == {k \in 1..Len(value) : value[k] = "~"}
        first == CHOOSE k \in tildes : \A j \in tildes : k <= j
        later == {k \in tildes : k > first}
        last == IF later = {} THEN Len(value) + 1
                ELSE CHOOSE k \in later : \A j \in later : k <= j
    IN  SubSeq(value, first + 1, last - 1)

(***************************************************************************)
(* C12: IsCookieValid(value, n) is false for every value of fewer than two *)
(* ~-delimited fields, for every value whose second field does not parse   *)
(* as an integer, and for every n below a threshold that does parse.       *)
(***************************************************************************)
C12_CookieInvalid ==
    Returned("IsCookieValid") =>
        LET fields == FieldCount(call.value)
        IN  /\ (fields < 2) => ~call.result
            /\ (fields >= 2) =>
                  LET threshold == Atoi(SecondField(call.value))
                  IN  /\ ~threshold.ok => ~call.result
                      /\ (threshold.ok /\ call.requestCount < threshold.val) => ~call.result

C12_Witness ==
    /\ Returned("IsCookieValid")
    /\ FieldCount(call.value) >= 2
    /\ Atoi(SecondField(call.value)).ok
    /\ call.requestCount >= 0
    /\ call.requestCount < Atoi(SecondField(call.value)).val
    /\ ~call.result

(***************************************************************************)
(* C13 as stated: for every value whose second field parses as an integer  *)
(* threshold, of any sign and -1 included, and every n, IsCookieValid is   *)
(* true whenever n >= threshold.                                           *)
(***************************************************************************)
C13_ValidAtAnyThreshold ==
    (/\ Returned("IsCookieValid")
     /\ FieldCount(call.value) >= 2
     /\ Atoi(SecondField(call.value)).ok
     /\ call.requestCount >= Atoi(SecondField(call.value)).val) => call.result

(***************************************************************************)
(* C13 amended: for every value whose second field parses as an integer    *)
(* threshold other than -1, and every n, IsCookieValid is true whenever    *)
(* n >= threshold; when the threshold is -1 it is false for every n.       *)
(***************************************************************************)
C13_ValidUnlessMinusOne ==
    (/\ Returned("IsCookieValid")
     /\ FieldCount(call.value) >= 2
     /\ Atoi(SecondField(call.value)).ok) =>
        LET threshold == Atoi(SecondField(call.value)).val
        IN  IF threshold = 0 - 1 THEN ~call.result
            ELSE (call.requestCount >= threshold) => call.result

C13_Witness ==
    /\ Returned("IsCookieValid")
    /\ FieldCount(call.value) >= 2
    /\ Atoi(SecondField(call.value)).ok
    /\ Atoi(SecondField(call.value)).val < 0 - 1
    /\ call.requestCount >= Atoi(SecondField(call.value)).val
    /\ call.result

\* the SDK script the sensor worker fetched is a dynamic version 2 script
DynamicScript == sensor.version = Version2 /\ ~IsScriptStatic(sensor.scriptBody)

(***************************************************************************)
(* C14: the scriptValues of every sensor generation request are empty      *)
(* unless the detected version is 2 and the script is not static; the      *)
(* dynamic-values operation is called at most once per Generate, only in   *)
(* that case and before the first sensor generation request, and never     *)
(* for a script of a version below 2.                                      *)
(***************************************************************************)
C14_DynamicValuesOnlyForDynamicV2 ==
    /\ remoteCount["dynamic"] <= 1
    /\ (remoteCount["dynamic"] = 1) => DynamicScript
    /\ (sensor.version \in {Version17, Version175}) => remoteCount["dynamic"] = 0
    /\ (bpc["sensor"] = "dynamic") => remoteCount["sensor"] = 0 /\ remoteCount["dynamic"] = 0
    /\ (remoteCount["sensor"] > 0 /\ DynamicScript) =>
          remoteCount["dynamic"] = 1 /\ remoteErr["dynamic"] = Nil
    /\ (sensor.request.ScriptValues # <<>> \/ sensor.scriptValues # <<>>) =>
          DynamicScript /\ remoteCount["dynamic"] = 1

C14_Witness ==
    /\ DynamicScript
    /\ remoteCount["dynamic"] = 1
    /\ remoteCount["sensor"] = 2
    /\ sensor.request.ScriptValues # <<>>

(***************************************************************************)
(* C15: the body of every sensor POST is exactly {"sensor_data":" followed *)
(* by the payload the remote API returned for that iteration, unmodified,  *)
(* followed by "}: nothing is escaped, not even a quote or a backslash in  *)
(* the payload.                                                            *)
(***************************************************************************)
C15_PostBodyIsRawPayload ==
    (bpc["sensor"] = "stop" \/ failedAt["sensor"] = "post") =>
        /\ httpCount[OpPostSensorData] > 0
        /\ Len(sensor.body) = Len(sensor.payload) + 2
        /\ sensor.body[1] = "{\"sensor_data\":\""
        /\ \A k \in 1..Len(sensor.payload) : sensor.body[k + 1] = sensor.payload[k]
        /\ sensor.body[Len(sensor.body)] = "\"}"

C15_Witness ==
    /\ httpCount[OpPostSensorData] = 2
    /\ bpc["sensor"] = "stop"
    /\ \E k \in 1..Len(sensor.payload) : sensor.payload[k] = "\""
    /\ \E k \in 1..Len(sensor.payload) : sensor.payload[k] = "\\"
    /\ sensor.body = <<"{\"sensor_data\":\"", "p", "\"", "\\", "\"}">>

(***************************************************************************)
(* C16: each of the three operations of the remote API sends its request   *)
(* authenticated with the API key of the session.                          *)
(***************************************************************************)
C16_RemoteCallsCarryApiKey ==
    \A op \in RemoteOps :
        (remoteCount[op] > 0) => "x-api-key" \in remoteCall[op].headers

\* the status code with which an operation of the remote API succeeds
SuccessStatus(op) == IF op = "dynamic" THEN StatusOK ELSE StatusCreated

(***************************************************************************)
(* C17: when the remote API answers with a status code other than the      *)
(* operation's success code, the operation returns an ApiOperationError    *)
(* with that status code and the message field of the body, empty when     *)
(* there is none, whatever the body is, a body that is not JSON included.  *)
(***************************************************************************)
C17_BadStatusIsApiOperationError ==
    \A op \in RemoteOps :
        LET response == remoteCall[op].response
        IN  (/\ remoteCount[op] > 0
             /\ response.err = Nil
             /\ response.statusCode # SuccessStatus(op)) =>
                remoteErr[op] =
                    ApiOperationError(response.statusCode,
                                      IF response.body.isJson THEN response.body.message
                                      ELSE "")

\* errors.Is(err, target), for the errors Generate returns: err is target, or
\* a join that holds it, directly or in a join it holds
ErrorsIs(err, target) ==
    \/ err = target
    \/ /\ err.type = "joinError"
       /\ \E k \in 1..Len(err.errs) :
             \/ err.errs[k] = target
             \/ /\ err.errs[k].type = "joinError"
                /\ \E j \in 1..Len(err.errs[k].errs) : err.errs[k].errs[j] = target

(***************************************************************************)
(* C18: every transport failure of a doHttpReq call during Generate, for   *)
(* any of the five purposes, is in the returned error wrapped with an      *)
(* HttpOpError whose Op is the tag of the call that failed.                *)
(***************************************************************************)
C18_TransportFailuresAreTagged ==
    (pc = "returned") =>
        \A op \in HttpReqOps :
            (httpCount[op] > 0 /\ httpOut[op].err # Nil) =>
                ErrorsIs(result, HttpOpError(op))

\* the worker is inside the critical section of addError
InAddError(b) == bpc[b] \in {"append", "store", "unlock"}

\* the positions of errs the worker appended
AppendedBy(b) == {k \in 1..Len(errBy) : errBy[k] = b}

(***************************************************************************)
(* C19: the collector of errors is append-only and is changed only under   *)
(* its one lock, so that under every interleaving of the two workers the   *)
(* combined error holds every error a worker reported exactly once: none   *)
(* is lost when both workers fail at the same time.                        *)
(***************************************************************************)
C19_NoReportedErrorLost ==
    /\ ~(InAddError("pixel") /\ InAddError("sensor"))
    /\ \A b \in Branches : InAddError(b) <=> mu = b
    /\ Len(errs) = Len(errBy)
    /\ \A b \in Branches :
          /\ (failedAt[b] # "" /\ bpc[b] \in {"unlock", "done"}) =>
                /\ Cardinality(AppendedBy(b)) = 1
                /\ \A k \in AppendedBy(b) : errs[k] = pending[b]
          /\ (failedAt[b] = "" \/ bpc[b] \in {"lock", "append", "store"}) => AppendedBy(b) = {}
    /\ (pc = "returned" /\ bpc["pixel"] = "done") =>
          /\ result = ErrorsJoin(errs)
          /\ Len(errs) = Cardinality({b \in Branches : failedAt[b] # ""})
          /\ (errs # <<>>) => result.errs = errs

C19_Witness ==
    /\ pc = "returned"
    /\ failedAt["pixel"] # ""
    /\ failedAt["sensor"] # ""
    /\ errBy = <<"sensor", "pixel">>
    /\ result.errs = <<pending["sensor"], pending["pixel"]>>

(***************************************************************************)
(* C20: GetPixelChallengeHtmlVar returns the plain not-found error when    *)
(* the attribute is absent, a compound error that wraps the parse failure  *)
(* in the not-found error when the attribute is there with a value that    *)
(* is not a number ("a"), and the number with a nil error when the value   *)
(* is a decimal number ("500").                                            *)
(***************************************************************************)
C20_HtmlVarAbsentOrMalformed ==
    Returned("GetPixelChallengeHtmlVar") =>
        LET src == call.src
            numeric == Len(src.htmlAttr) > 0 /\ AllIn(src.htmlAttr, DigitChars)
        IN  /\ ~src.hasHtmlAttr => call.result = [v |-> 0, err |-> ErrPixelHtmlVarNotFound]
            /\ (src.hasHtmlAttr /\ ~numeric) =>
                  call.result.err = ErrorsJoin(<<ErrPixelHtmlVarNotFound, NumError>>)
            /\ (src.hasHtmlAttr /\ numeric /\ Len(src.htmlAttr) <= MaxLen + 1) =>
                  call.result = [v |-> DecimalValue(src.htmlAttr), err |-> Nil]

(***************************************************************************)
(* C21: the round trip of the decoder: for every string, FromHexString of  *)
(* the string with each character escaped as a backslash, x and the two    *)
(* hexadecimal digits of the character returns the string and a nil error. *)
(***************************************************************************)
C21_HexRoundTrip ==
    Returned("FromHexString") => call.result = [v |-> Utf8(call.chars), err |-> Nil]

C21_Witness ==
    /\ Returned("FromHexString")
    /\ call.chars = <<92, 233, 120>>
    /\ call.s = <<"\\", "x", "5", "c", "\\", "x", "e", "9", "\\", "x", "7", "8">>
    /\ call.result = [v |-> <<92, 195, 169, 120>>, err |-> Nil]

(***************************************************************************)
(* C22: the order of the calls of doHttpReq in one Generate: the page is    *)
(* fetched by exactly one GET, before every other call; the SDK script is  *)
(* fetched by at most one GET, before every POST of sensor data; the pixel *)
(* script is fetched by at most one GET, before the POST of the pixel      *)
(* payload; the pixel payload is posted only when the page has the pixel   *)
(* challenge and the fetch of its script answered 200; the sensor data is  *)
(* posted to the URL the SDK script was fetched from.                      *)
(***************************************************************************)
C22_HttpCallOrder ==
    /\ httpCount[OpGetPage] <= 1
    /\ (pc \in {"fork", "wait"} \/ HttpCalls > 0) =>
          /\ httpCount[OpGetPage] = 1
          /\ httpOut[OpGetPage].method = MethodGet
          /\ httpOut[OpGetPage].url = <<pageUrl>>
    /\ \A op \in HttpReqOps \ {OpGetPage} :
          (httpCount[op] > 0) => httpCount[OpGetPage] = 1 /\ GetError(httpOut[OpGetPage]) = Nil
    /\ httpCount[OpGetSdkScript] <= 1
    /\ (httpCount[OpGetSdkScript] = 1) => httpOut[OpGetSdkScript].method = MethodGet
    /\ (httpCount[OpPostSensorData] > 0) =>
          /\ httpCount[OpGetSdkScript] = 1
          /\ httpOut[OpPostSensorData].method = MethodPost
          /\ httpOut[OpPostSensorData].url = httpOut[OpGetSdkScript].url
    /\ httpCount[OpGetPixelChallengeScript] <= 1
    /\ (httpCount[OpGetPixelChallengeScript] = 1) =>
          httpOut[OpGetPixelChallengeScript].method = MethodGet
    /\ httpCount[OpPostPixelPayload] <= 1
    /\ (httpCount[OpPostPixelPayload] > 0) =>
          /\ httpCount[OpGetPixelChallengeScript] = 1
          /\ httpOut[OpPostPixelPayload].method = MethodPost
          /\ GetPixelChallengeScriptURL(pageBody).ok
          /\ httpOut[OpGetPixelChallengeScript].err = Nil
          /\ httpOut[OpGetPixelChallengeScript].statusCode = StatusOK

C22_Witness ==
    /\ pc = "returned"
    /\ httpCount[OpGetPage] = 1
    /\ httpCount[OpGetSdkScript] = 1
    /\ httpCount[OpPostSensorData] = 2
    /\ httpCount[OpGetPixelChallengeScript] = 1
    /\ httpCount[OpPostPixelPayload] = 1
    /\ httpOut[OpPostSensorData].url = <<"https", "://", "example.com", "/", "a">>

(***************************************************************************)
(* Generate called as its contract asks: with both collaborators, a        *)
(* positive maxTries and an absolute page URL.  Every call of doHttpReq,   *)
(* of getCookie and of the remote API returns (each is one step), and the  *)
(* scheduler runs a goroutine that can take a step.                        *)
(***************************************************************************)
LiveInit ==
    /\ doHttpReq = "func"
    /\ getCookie = "func"
    /\ maxTries \in 1..MaxTries
    /\ pageUrl = "https://example.com/"
    /\ abck \in AbckValues
    /\ call = NoCall
    /\ NotStarted

LiveSpec == LiveInit /\ [][Next]_vars /\ WF_vars(Next)

(***************************************************************************)
(* C23: provided every call of doHttpReq, of getCookie and of the remote   *)
(* API returns, Generate eventually returns: the two workers end after at  *)
(* most 1 + 2 + (1 + maxTries) calls of doHttpReq in all, and Generate     *)
(* waits for nothing but the two workers.                                  *)
(***************************************************************************)
C23_GenerateReturns ==
    /\ [](HttpCalls <= 1 + 2 + (1 + maxTries))
    /\ []((pc = "wait" /\ \A b \in Branches : bpc[b] = "done") => ENABLED Return)
    /\ <>(pc = "returned" /\ \A b \in Branches : bpc[b] \in {"idle", "done"})

C23_Witness ==
    /\ pc = "returned"
    /\ maxTries = MaxTries
    /\ \A b \in Branches : bpc[b] = "done"
    /\ HttpCalls = 1 + 2 + (1 + maxTries)

\* one of the steps of GetPixelChallengeScriptVar fails on the script: the index
\* reference is missing, the index does not parse, the array declaration is
\* missing, the index is not below the number of entries, or the entry at the
\* index does not decode
ScriptVarStepFails(src) ==
    LET index == Atoi(src.indexRef)
    IN  \/ ~src.hasIndexRef
        \/ src.indexRef = <<>>
        \/ ~AllIn(src.indexRef, DigitChars)
        \/ ~index.ok
        \/ ~src.hasArrayDecl
        \/ index.val >= Len(src.arrayStrings)
        \/ FromHexString(src.arrayStrings[index.val + 1]).err # Nil

(***************************************************************************)
(* C24: GetPixelChallengeScriptVar never panics, and reports every failure *)
(* as one kind of error with its cause: a missing index reference, an      *)
(* index that does not parse, a missing array declaration, an index not    *)
(* below the number of quoted entries and an entry that does not decode    *)
(* each give the empty string and the join of ErrPixelScriptVarNotFound    *)
(* with the cause; only when every step succeeds is the decoded entry at   *)
(* the index returned, with a nil error.                                   *)
(***************************************************************************)
C24_ScriptVarFailuresAreOneKind ==
    Returned("GetPixelChallengeScriptVar") =>
        LET src == call.src
            r == call.result
        IN  /\ r.err.type # "panic"
            /\ IF ScriptVarStepFails(src)
               THEN /\ r.v = <<>>
                    /\ r.err.type = "joinError"
                    /\ Len(r.err.errs) = 2
                    /\ r.err.errs[1] = ErrPixelScriptVarNotFound
                    /\ r.err.errs[2].type \in {"fmt.Errorf", "strconv.NumError"}
               ELSE /\ r.err = Nil
                    /\ r.v = FromHexString(src.arrayStrings[Atoi(src.indexRef).val + 1]).v

C24_Witness ==
    /\ Returned("GetPixelChallengeScriptVar")
    /\ call.src = PixelScript(TRUE, <<"1">>, TRUE,
                              << <<"\\", "x", "6", "1">>, <<"\\", "x", "z", "z">> >>)
    /\ call.result = [v |-> <<>>, err |-> ErrorsJoin(<<ErrPixelScriptVarNotFound, NumError>>)]

(***************************************************************************)
(* C25: the script path GetScriptPath extracts from a page always begins   *)
(* with "/", so that the script URL scheme://host + path that Generate     *)
(* builds has a "/" between the host and the path.                         *)
(***************************************************************************)
C25_ScriptPathBeginsWithSlash ==
    (Returned("GetScriptPath") /\ call.result # <<>>) =>
        /\ call.result[1] = "/"
        /\ LET url == SdkScriptUrl(UrlParse("https://example.com/"), call.result)
           IN  url[4] = "/"

(***************************************************************************)
(* C26: each worker appends at most one error to the collector and none    *)
(* after it has ended, so the collector never holds more than two errors:  *)
(* at most one of the pixel worker and at most one of the sensor worker.   *)
(***************************************************************************)
C26_AtMostOneErrorPerBranch ==
    /\ [](/\ Len(errs) <= 2
          /\ Len(errs) = Len(errBy)
          /\ \A b \in Branches : Cardinality(AppendedBy(b)) <= 1)
    /\ [][\A b \in Branches :
              (bpc[b] = "done") =>
                  /\ bpc'[b] = "done"
                  /\ {k \in 1..Len(errBy') : errBy'[k] = b} = AppendedBy(b)
                  /\ \A k \in AppendedBy(b) : errs'[k] = errs[k]]_vars

C26_Witness ==
    /\ pc = "wait"
    /\ errBy = <<"pixel", "sensor">>
    /\ Len(errs) = 2
    /\ bpc["pixel"] = "done"
    /\ bpc["sensor"] = "unlock"

(***************************************************************************)
(* C27: the status code of the POST of the sensor data and of the POST of  *)
(* the pixel payload is never looked at: when doHttpReq returns no error,  *)
(* whatever the status code, 4xx and 5xx included, no error is collected;  *)
(* the sensor loop goes on to the stop signal and the pixel worker ends    *)
(* without an error.                                                       *)
(***************************************************************************)
C27_PostStatusIgnored ==
    /\ (httpCount[OpPostPixelPayload] > 0 /\ httpOut[OpPostPixelPayload].err = Nil) =>
          /\ bpc["pixel"] = "done"
          /\ failedAt["pixel"] = ""
          /\ AppendedBy("pixel") = {}
    /\ (httpCount[OpPostSensorData] > 0 /\ httpOut[OpPostSensorData].err = Nil) =>
          /\ failedAt["sensor"] \notin {"post"}
          /\ IF bpc["sensor"] = "stop"
             THEN stop.count = httpCount[OpPostSensorData] - 1
             ELSE stop.count = httpCount[OpPostSensorData]
          /\ (bpc["sensor"] = "done" /\ failedAt["sensor"] = "") => AppendedBy("sensor") = {}

C27_Witness ==
    /\ pc = "returned"
    /\ result = Nil
    /\ httpOut[OpPostPixelPayload] =
          [url |-> pixel.postUrl, method |-> MethodPost, err |-> Nil,
           statusCode |-> StatusNotFound]
    /\ httpOut[OpPostSensorData].err = Nil
    /\ httpOut[OpPostSensorData].statusCode = StatusInternalServerError
    /\ stop.count = 1

\* the smaller of two numbers
Min(a, b) == IF a <= b THEN a ELSE b

(***************************************************************************)
(* C28: when no step fails and every POST leaves the _abck cookie with the *)
(* same value, the sensor worker makes exactly min(maxTries, t + 1) POSTs  *)
(* of sensor data if the second field of the cookie parses as a threshold  *)
(* t >= 0 (the stop signal after the k-th POST is evaluated with k - 1),   *)
(* and exactly maxTries POSTs if the cookie has no threshold that parses.  *)
(***************************************************************************)
C28_PostCount ==
    (/\ bpc["sensor"] = "done"
     /\ failedAt["sensor"] = ""
     /\ httpCount[OpGetSdkScript] = 1
     /\ postAbckSame) =>
        LET parses == FieldCount(postAbck) >= 2 /\ Atoi(SecondField(postAbck)).ok
            t == Atoi(SecondField(postAbck)).val
        IN  /\ (parses /\ t >= 0) => SensorPosts = Min(maxTries, t + 1)
            /\ ~parses => SensorPosts = maxTries
            /\ stop.count = SensorPosts
            /\ stop.requestCount = SensorPosts - 1

C28_Witness ==
    /\ bpc["sensor"] = "done"
    /\ failedAt["sensor"] = ""
    /\ maxTries = 2
    /\ postAbckSame
    /\ postAbck = <<"a", "~", "1", "~", "b">>
    /\ SensorPosts = 2
    /\ stop = [count |-> 2, value |-> postAbck, requestCount |-> 1, complete |-> TRUE]

====
